---- MODULE Spec2Model ----
(***************************************************************************)
(* The usage service of the Cursor usage-summary extension: the cached,    *)
(* authenticated fetch of /api/usage-summary (UsageService), the manual    *)
(* redirect-following transport under it, and the extension handlers that  *)
(* call it.  JavaScript runs one handler at a time, so every action below  *)
(* is one handler run to its next await: the synchronous head of           *)
(* getUsageSummary, one response/error/timeout event of an outstanding     *)
(* request together with the promise continuations it releases, or a       *)
(* configuration change.                                                   *)
(***************************************************************************)
EXTENDS Integers, Sequences, FiniteSets, Bags, TLC

VARIABLES
    now,        \* Date.now(), in milliseconds
    apiToken,   \* configuration value cursorUsageSummary.apiToken
    proxy,      \* configuration value cursorUsageSummary.proxy
    cache,      \* UsageService.cache: the Map from keys to entries
    calls,      \* bag of the getUsageSummary calls awaiting makeHttpsRequest
    fetches,    \* number of transport call chains started so far
    returned,   \* the summary a getUsageSummary call has just resolved with, until the
                \* caller's continuation takes it
    timers,     \* the armed setInterval timers: whose it is and when it is due
    started,    \* the number of call chains started before, kept where the order in
                \* which overlapping fetches started is observed (0 elsewhere)
    probe,      \* an operation of the service applied on its own to an argument:
                \* the argument, then the result
    disposed    \* StatusBarManager.dispose() has run (the extension is deactivated)

\* the state of the running extension
extension == <<now, apiToken, proxy, cache, calls, fetches, returned>>

vars == <<now, apiToken, proxy, cache, calls, fetches, returned, timers, started, probe,
          disposed>>

----------------------------------------------------------------------------
(* Bounds of the model *)

MaxTicks == 2
TickStep == 30000
MaxFetches == 2
MaxPeriodicFetches == 4
MaxUsed == 2
MaxLimit == 2

----------------------------------------------------------------------------
(* Values *)

Null == [null |-> TRUE]

NoReturn == [src |-> "none"]

\* new Map()
EmptyMap == [k \in {} |-> Null]

\* map.get(key): the value, or undefined
MapGet(map, key) == IF key \in DOMAIN map THEN map[key] ELSE Null

\* a key that is present keeps its value
MapSet_IfAbsent(map, key, value) ==
    [k \in DOMAIN map \cup {key} |-> IF k \in DOMAIN map THEN map[k] ELSE value]

\* map.set(key, value)
MapSet(map, key, value) ==
    [k \in DOMAIN map \cup {key} |-> IF k = key THEN value ELSE map[k]]

\* const cacheKey
cacheKey == "usage-summary"

NoProbe == [op |-> "none"]

Tokens == {"", "tokA", "tokB"}

ProxySettings == {"", "http://proxy:8080", "not a url"}

CACHE_DURATION == 60 * 1000

\* the period of both setInterval timers
UPDATE_INTERVAL_MS == 60 * 1000

DefaultMaxRedirects == 5

\* the default of maxRedirects in the diagnostic script
CliDefaultMaxRedirects == 5

API_BASE_URL == "https://cursor.com"

API_ENDPOINT == "/api/usage-summary"

\* API_URL of the diagnostic script
API_URL == "https://cursor.com/api/usage-summary"

MockUsed == 794

MockLimit == 5000

\* a placeholder without the individual section
MockUsageData_NoIndividual ==
    [owner |-> "mock", asOf |-> 0, req |-> 0, individualUsage |-> Null]

\* getMockUsageData(): the fixed placeholder dataset
MockUsageData ==
    [owner |-> "mock", asOf |-> 0, req |-> 0,
     individualUsage |-> [overall |-> [used |-> MockUsed, limit |-> MockLimit]]]

\* A live UsageSummary, told apart by its provenance: the session whose cookie the
\* request carried, the time the upstream answered and the fetch it answered
LiveSummary(owner, t, req) ==
    [owner |-> owner, asOf |-> t, req |-> req,
     individualUsage |-> [overall |-> [used |-> 1, limit |-> MockLimit]]]

----------------------------------------------------------------------------
(* getRequestOptions *)

\* new HttpsProxyAgent(proxyUrl) throws on a string that is no URL
ProxyAgentThrows(p) == p = "not a url"

\* headers['Cookie']: absent without a token, else the session cookie
CookieHeader(token) ==
    IF token = "" THEN Null
    ELSE [name |-> "WorkosCursorSessionToken", value |-> token]

\* !str.trim(): nothing but white space
Blank(str) == \A i \in 1..Len(str) : SubSeq(str, i, i) = " "

\* the four variables of the environment, in the order they are tried
EnvNames == <<"https_proxy", "HTTPS_PROXY", "http_proxy", "HTTP_PROXY">>

\* a variable that is not set, or one that is set to a text
Unset == [set |-> FALSE, value |-> ""]

EnvValues == {Unset} \cup [set : {TRUE}, value : {"", " ", "http://a:1", "http://b:2"}]

\* process.env.X: undefined or the text, of which only a non-empty text is truthy
\* a || b || c || d || ''
FirstTruthy(env) ==
    IF env[EnvNames[1]].value # "" THEN env[EnvNames[1]].value
    ELSE IF env[EnvNames[2]].value # "" THEN env[EnvNames[2]].value
    ELSE IF env[EnvNames[3]].value # "" THEN env[EnvNames[3]].value
    ELSE env[EnvNames[4]].value

\* proxyUrl: the setting, or without one the variables of the environment
ProxyUrl(setting, env) ==
    IF setting = "" \/ Blank(setting) THEN FirstTruthy(env) ELSE setting

\* the route the request takes with the agent built for proxyUrl: an agent that
\* could not be built is left undefined, and the request then goes out directly
Connection(proxyUrl) ==
    IF proxyUrl # "" /\ ~Blank(proxyUrl) THEN
        IF ProxyAgentThrows(proxyUrl) THEN [via |-> "direct", shown |-> 1]
        ELSE [via |-> "proxy", url |-> proxyUrl, shown |-> 0]
    ELSE [via |-> "direct", shown |-> 0]

\* the request options built for one hop, and the number of error messages
\* shown while building them
GetRequestOptions(token, p) ==
    [cookie |-> CookieHeader(token),
     agent |-> IF p # ""
               THEN (IF ProxyAgentThrows(p) THEN "undefined" ELSE "proxy")
               ELSE "direct",
     shown |-> IF p # "" /\ ProxyAgentThrows(p) THEN 1 ELSE 0]

----------------------------------------------------------------------------
(* The upstream: what can come back for one request *)

StatusCodes == {204, 401, 403, 404, 500}

Locations == {"/login", "login", "https://cursor.com/login"}

ErrorCodes == {"ECONNREFUSED", "ENOTFOUND", "ECONNRESET"}

\* res.statusMessage: the text the upstream sends after the status code
StatusMessages == {"Error", "Gateway timeout", "Too many redirects"}

\* a 200 response that streams body b to its end
Ok200(b) ==
    [t |-> "response", status |-> 200, location |-> "", body |-> b, stream |-> "end"]

\* the usage summary of the session the cookie names, as of time t, sent in
\* answer to fetch req
LiveBody(cookie, t, req) ==
    [syntax |-> "json", value |-> LiveSummary(cookie.value, t, req)]

\* the bodies that fail: JSON without individualUsage, JSON null, a page that is no JSON
BadBodies ==
    {[syntax |-> "json",
      value |-> [owner |-> "none", asOf |-> 0, req |-> 0, individualUsage |-> Null]],
     [syntax |-> "json", value |-> Null],
     [syntax |-> "html"]}

\* one event of each kind that moves the service differently: a redirect, the
\* summary (only a request with a cookie gets one), an unparsable page, a timeout
CoreEvents(cookie, t, req) ==
    {[t |-> "response", status |-> 302, location |-> "/login"]}
    \cup (IF cookie = Null THEN {} ELSE {Ok200(LiveBody(cookie, t, req))})
    \cup {Ok200([syntax |-> "html"])}
    \cup {[t |-> "timeout", first |-> "request"]}

\* every event the handlers of a request tell apart
AllEvents(cookie, t, req) ==
    CoreEvents(cookie, t, req)
    \cup {[t |-> "response", status |-> 302, location |-> l] : l \in Locations \cup {""}}
    \cup {[t |-> "response", status |-> s, location |-> "", statusMessage |-> m] :
              s \in StatusCodes, m \in StatusMessages}
    \cup {Ok200(b) : b \in BadBodies}
    \cup {[t |-> "response", status |-> 200, location |-> "", body |-> [syntax |-> "html"],
           stream |-> "error"]}
    \cup {[t |-> "error", code |-> c] : c \in ErrorCodes}
    \cup {[t |-> "timeout", first |-> "socket"]}

----------------------------------------------------------------------------
(* makeHttpsRequest: the handlers of one request *)

\* an Error: its kind and the substrings of its message the classifier looks for
Err(kind, has) == [kind |-> kind, has |-> has]

StatusText(s) ==
    CASE s = 204 -> "204" [] s = 401 -> "401" [] s = 403 -> "403"
      [] s = 404 -> "404" [] s = 500 -> "500" [] OTHER -> "other"

\* str.includes(sub)
Includes(str, sub) ==
    \E i \in 1..(Len(str) - Len(sub) + 1) : SubSeq(str, i, i + Len(sub) - 1) = sub

\* the substrings the catch block of getUsageSummary looks for in a message
Markers ==
    {"Too many redirects", "ECONNREFUSED", "ENOTFOUND", "timeout", "401", "403", "404"}

\* `HTTP ${res.statusCode}: ${res.statusMessage}`
HttpStatusMessage(status, statusMessage) ==
    "HTTP " \o StatusText(status) \o ": " \o statusMessage

\* the markers found in the message of each status and status message
MarkersFound ==
    [s \in StatusCodes, m \in StatusMessages |->
        {mk \in Markers : Includes(HttpStatusMessage(s, m), mk)}]

\* new Error(`HTTP ${res.statusCode}: ${res.statusMessage}`)
HttpStatusError(e) == Err("HttpStatus", MarkersFound[e.status, e.statusMessage])

\* a request whose promise is pending and whose socket is open
Pending == [k |-> "pending", destroyed |-> FALSE]

\* reject(error) on a request: nothing changes once the promise is settled
Reject(r, error) ==
    IF r.k = "pending" THEN [k |-> "reject", error |-> error, destroyed |-> r.destroyed]
    ELSE r

\* the handler does nothing on a request that is destroyed already
OnRequestTimeout_UnlessDestroyed(r) ==
    IF r.destroyed THEN r
    ELSE Reject([r EXCEPT !.destroyed = TRUE], Err("Timeout", {"timeout"}))

\* req.on('timeout'): req.destroy(), then reject with the timeout message
OnRequestTimeout(r) ==
    Reject([r EXCEPT !.destroyed = TRUE], Err("Timeout", {"timeout"}))

\* socket.on('timeout'): req.destroy()
OnSocketTimeout(r) == [r EXCEPT !.destroyed = TRUE]

\* req.on('error') for the 'socket hang up' that req.destroy() raises afterwards
OnDestroyError(r) == Reject(r, Err("RequestError", {"ECONNRESET"}))

\* a timeout: the socket emits 'timeout' once, the two handlers run in the
\* order `first` tells, and the error of the destroyed request comes last
OnTimeout(first) ==
    IF first = "request"
    THEN OnDestroyError(OnSocketTimeout(OnRequestTimeout(Pending)))
    ELSE OnDestroyError(OnRequestTimeout(OnSocketTimeout(Pending)))

\* the handlers of one request, on event e; `exhausted` is the outcome of the
\* test that ends a redirect chain
RequestHandlers(e, maxRedirects, exhausted) ==
    IF e.t = "response" THEN
        IF e.status >= 300 /\ e.status < 400 THEN
            IF e.location = "" THEN
                [k |-> "reject", error |-> Err("RedirectWithoutLocation", {})]
            ELSE IF exhausted THEN
                [k |-> "reject", error |-> Err("TooManyRedirects", {"Too many redirects"})]
            ELSE [k |-> "follow", maxRedirects |-> maxRedirects - 1]
        ELSE IF e.status # 200 THEN [k |-> "reject", error |-> HttpStatusError(e)]
        ELSE IF e.stream = "end" THEN [k |-> "resolve", body |-> e.body]
        ELSE [k |-> "reject", error |-> Err("StreamError", {})]
    ELSE IF e.t = "timeout" THEN OnTimeout(e.first)
    ELSE [k |-> "reject", error |-> Err("RequestError", {e.code})]

\* the chain goes on for one redirect too many
HandleEvent_OneMore(e, maxRedirects) == RequestHandlers(e, maxRedirects, maxRedirects < 0)

\* the chain stops one redirect early
HandleEvent_OneLess(e, maxRedirects) == RequestHandlers(e, maxRedirects, maxRedirects <= 1)

\* every 2xx status is read to its end like a 200 (the body of a 204 is empty)
HandleEvent_Accepts2xx(e, maxRedirects) ==
    IF e.t = "response" /\ e.status \in 201..299
    THEN [k |-> "resolve", body |-> [syntax |-> "empty"]]
    ELSE RequestHandlers(e, maxRedirects, maxRedirects <= 0)

\* the bound is tested before the Location header
HandleEvent_BoundFirst(e, maxRedirects) ==
    IF e.t = "response" /\ e.status >= 300 /\ e.status < 400 /\ maxRedirects <= 0
    THEN [k |-> "reject", error |-> Err("TooManyRedirects", {"Too many redirects"})]
    ELSE RequestHandlers(e, maxRedirects, maxRedirects <= 0)

\* what the handlers of a request do with event e when maxRedirects redirects remain
HandleEvent(e, maxRedirects) == RequestHandlers(e, maxRedirects, maxRedirects <= 0)

\* s.startsWith(prefix)
StartsWith(str, prefix) ==
    Len(str) >= Len(prefix) /\ SubSeq(str, 1, Len(prefix)) = prefix

\* headers['Cookie'] for a token that is set: the token as it is when it starts
\* with the name of the session cookie, else the name, '=' and the token
CookieValue_AlwaysWraps(token) == "WorkosCursorSessionToken=" \o token

CookieValue(token) ==
    IF StartsWith(token, "WorkosCursorSessionToken=") THEN token
    ELSE "WorkosCursorSessionToken=" \o token

\* the target of a followed redirect: absolute as given, else joined to the base
RedirectUrl(location) ==
    IF StartsWith(location, "http") THEN location ELSE API_BASE_URL \o location

\* str.indexOf(sub) counted from 1, and 0 when sub does not occur
IndexOf(str, sub) ==
    LET at == {i \in 1..(Len(str) - Len(sub) + 1) : SubSeq(str, i, i + Len(sub) - 1) = sub}
    IN  IF at = {} THEN 0 ELSE CHOOSE i \in at : \A j \in at : i <= j

\* what follows '://' in a URL
AfterScheme(url) == SubSeq(url, IndexOf(url, "://") + 3, Len(url))

\* new URL(url).hostname, for a URL without user, port, query or fragment
Hostname(url) ==
    IF IndexOf(AfterScheme(url), "/") = 0 THEN AfterScheme(url)
    ELSE SubSeq(AfterScheme(url), 1, IndexOf(AfterScheme(url), "/") - 1)

\* new URL(url).pathname, for a URL without user, port, query or fragment
Pathname(url) ==
    IF IndexOf(AfterScheme(url), "/") = 0 THEN "/"
    ELSE SubSeq(AfterScheme(url), IndexOf(AfterScheme(url), "/"), Len(AfterScheme(url)))

----------------------------------------------------------------------------
(* makeRequest of the diagnostic script *)

\* cookieHeader: built from the token of the command line
CliCookieHeader(token) == [name |-> "WorkosCursorSessionToken", value |-> token]

\* cookieHeader as the text the script sends
CliCookieValue(token) ==
    IF StartsWith(token, "WorkosCursorSessionToken=") THEN token
    ELSE "WorkosCursorSessionToken=" \o token

CliRedirectUrl(location) ==
    IF StartsWith(location, "http") THEN location ELSE "https://cursor.com" \o location

\* the handlers of one request of the script, on event e; the response has no
\* 'error' listener, so an error of its stream settles nothing
MakeRequest(e, maxRedirects) ==
    IF e.t = "response" THEN
        IF e.status >= 300 /\ e.status < 400 THEN
            IF e.location = "" THEN
                [k |-> "reject", error |-> Err("RedirectWithoutLocation", {})]
            ELSE IF maxRedirects <= 0 THEN
                [k |-> "reject", error |-> Err("TooManyRedirects", {"Too many redirects"})]
            ELSE [k |-> "follow", maxRedirects |-> maxRedirects - 1]
        ELSE IF e.status # 200 THEN
            [k |-> "reject", error |-> Err("HttpStatus", {StatusText(e.status)})]
        ELSE IF e.stream = "end" THEN [k |-> "resolve", body |-> e.body]
        ELSE [k |-> "unsettled"]
    ELSE IF e.t = "timeout" THEN
        [k |-> "reject", error |-> Err("Timeout", {"timed out"})]
    ELSE [k |-> "reject", error |-> Err("RequestError", {e.code})]

----------------------------------------------------------------------------
(* The two transports, request by request *)

\* a call chain after its first request
ChainStart(url, cookie, maxRedirects) ==
    [status |-> "requesting", url |-> url, via |-> "", cookie |-> cookie,
     maxRedirects |-> maxRedirects, reqs |-> 1, result |-> Null]

\* a chain after outcome h of the handlers of its outstanding request (resolve
\* and reject do nothing to a promise that is settled), the next
\* request going to nextUrl, resolved from Location header via, with nextCookie
ChainStep(ch, h, via, nextUrl, nextCookie) ==
    IF ch.status # "requesting" THEN ch
    ELSE IF h.k = "follow" THEN
        [ch EXCEPT !.url = nextUrl, !.via = via, !.cookie = nextCookie,
                   !.maxRedirects = h.maxRedirects, !.reqs = ch.reqs + 1]
    ELSE IF h.k = "resolve" THEN [ch EXCEPT !.status = "resolved", !.result = h.body]
    ELSE IF h.k = "reject" THEN
        [ch EXCEPT !.status = "rejected", !.result = [kind |-> h.error.kind]]
    ELSE [ch EXCEPT !.status = "unsettled"]

\* a redirect is followed without passing on what remains of the bound
MakeHttpsRequestStep_Restarts(ch, e, token) ==
    LET h == HandleEvent(e, ch.maxRedirects) IN
    ChainStep(ch,
              IF h.k = "follow" THEN [h EXCEPT !.maxRedirects = DefaultMaxRedirects] ELSE h,
              IF e.t = "response" THEN e.location ELSE "",
              IF e.t = "response" /\ e.location # "" THEN RedirectUrl(e.location) ELSE ch.url,
              GetRequestOptions(token, "").cookie)

\* makeHttpsRequest of the extension on event e
MakeHttpsRequestStep(ch, e, token) ==
    ChainStep(ch, HandleEvent(e, ch.maxRedirects),
              IF e.t = "response" THEN e.location ELSE "",
              IF e.t = "response" /\ e.location # "" THEN RedirectUrl(e.location) ELSE ch.url,
              GetRequestOptions(token, "").cookie)

\* makeRequest of the script on event e
MakeRequestStep(ch, e, token) ==
    ChainStep(ch, MakeRequest(e, ch.maxRedirects),
              IF e.t = "response" THEN e.location ELSE "",
              IF e.t = "response" /\ e.location # "" THEN CliRedirectUrl(e.location) ELSE ch.url,
              CliCookieHeader(token))

----------------------------------------------------------------------------
(* The percentage helpers *)

\* a JavaScript number: an integer, NaN or Infinity
Num(n) == [is |-> "number", value |-> n]

NaN == [is |-> "NaN"]

Infinity == [is |-> "Infinity"]

\* a / b on non-negative integers, as the fraction it is when b is not 0
Divide(a, b) ==
    IF b # 0 THEN [is |-> "fraction", num |-> a, den |-> b]
    ELSE IF a = 0 THEN NaN
    ELSE Infinity

\* x * 100
Times100(x) == IF x.is = "fraction" THEN [x EXCEPT !.num = x.num * 100] ELSE x

\* Math.round: the nearest integer, halves upwards; NaN and Infinity stay
MathRound(x) ==
    IF x.is = "fraction" THEN Num((2 * x.num + x.den) \div (2 * x.den)) ELSE x

\* Math.round((used / limit) * 100)
RatioPercentage(bucket) == MathRound(Times100(Divide(bucket.used, bucket.limit)))

\* the usage buckets a summary can carry: absent, or used and limit
Buckets == {Null} \cup [used : 0..MaxUsed, limit : 0..MaxLimit]

\* the parts of a summary the helpers read
Summaries ==
    [isUnlimited : BOOLEAN,
     individualUsage : {Null} \cup [overall : Buckets],
     teamUsage : {Null} \cup [onDemand : Buckets, pooled : Buckets]]

\* usageData.individualUsage?.overall
IndividualOverall(usageData) ==
    IF usageData.individualUsage = Null THEN Null
    ELSE usageData.individualUsage.overall

\* teamUsage?.onDemand and teamUsage?.pooled
TeamBucket(usageData, name) ==
    IF usageData.teamUsage = Null THEN Null
    ELSE usageData.teamUsage[name]

\* getIndividualUsagePercentage(usageData)
GetIndividualUsagePercentage(usageData) ==
    IF IndividualOverall(usageData) = Null THEN Num(0)
    ELSE RatioPercentage(IndividualOverall(usageData))

\* getTeamUsageInfo(usageData): the percentage of each of the two team buckets
GetTeamUsageInfo(usageData) ==
    [name \in {"onDemand", "pooled"} |->
        [percentage |-> IF TeamBucket(usageData, name) # Null
                        THEN RatioPercentage(TeamBucket(usageData, name))
                        ELSE Num(0)]]

\* updateStatusBarDisplay(usageData): 'N/A' without the individual bucket, else
\* the text with the percentage of the helper
UpdateStatusBarDisplay(usageData) ==
    IF IndividualOverall(usageData) = Null THEN [text |-> "N/A"]
    ELSE [text |-> "usage", percentage |-> GetIndividualUsagePercentage(usageData)]

\* the individual section of the details view: left out without the bucket, else
\* with the percentage computed in the template
DetailsIndividual(usageData) ==
    IF IndividualOverall(usageData) = Null THEN [text |-> "none"]
    ELSE [text |-> "usage", percentage |-> RatioPercentage(IndividualOverall(usageData))]

----------------------------------------------------------------------------
(* getUsageSummary *)

\* the window test the wrong way round
CacheValid_Inverted(forceRefresh, cached, t) ==
    ~forceRefresh /\ cached # Null /\ t - cached.timestamp > CACHE_DURATION

\* forceRefresh left out of the test
CacheValid_IgnoresForce(forceRefresh, cached, t) ==
    cached # Null /\ t - cached.timestamp < CACHE_DURATION

\* the cache test at the head of getUsageSummary
CacheValid(forceRefresh, cached, t) ==
    ~forceRefresh /\ cached # Null /\ t - cached.timestamp < CACHE_DURATION

\* JSON.parse
JSONParse(body) ==
    IF body.syntax = "json" THEN [ok |-> TRUE, value |-> body.value]
    ELSE [ok |-> FALSE]

\* whatever parses is taken
ParseAndVerify_NoStructureCheck(body) ==
    LET p == JSONParse(body) IN
    IF ~p.ok THEN [ok |-> FALSE, error |-> Err("InvalidJSON", {})]
    ELSE [ok |-> TRUE, value |-> p.value]

\* the try block after the transport resolved: parse, then verify the structure
ParseAndVerify(body) ==
    LET p == JSONParse(body) IN
    IF ~p.ok THEN [ok |-> FALSE, error |-> Err("InvalidJSON", {})]
    ELSE IF p.value = Null \/ p.value.individualUsage = Null
         THEN [ok |-> FALSE, error |-> Err("InvalidStructure", {})]
         ELSE [ok |-> TRUE, value |-> p.value]

\* the user-facing text the catch block picks for an Error
ErrorMessage(error) ==
    IF "Too many redirects" \in error.has THEN "redirect-loop"
    ELSE IF "ECONNREFUSED" \in error.has THEN "connection-refused"
    ELSE IF "ENOTFOUND" \in error.has THEN "dns-failed"
    ELSE IF "timeout" \in error.has THEN "timed-out"
    ELSE IF "401" \in error.has THEN "invalid-token"
    ELSE IF "403" \in error.has THEN "access-denied"
    ELSE IF "404" \in error.has THEN "endpoint-not-found"
    ELSE "generic"

\* the entry read at the head of the call is not used
Fallback_AlwaysMock(cached) == [src |-> "mock", data |-> MockUsageData]

\* the end of the catch block: the entry read at the head of the call, or mock data
Fallback(cached) ==
    IF cached # Null THEN [src |-> "stale", data |-> cached.data]
    ELSE [src |-> "mock", data |-> MockUsageData]

\* the try block from the await on: the transport's result h, parsed and verified
TryBlock(h) ==
    IF h.k = "resolve" THEN ParseAndVerify(h.body)
    ELSE [ok |-> FALSE, error |-> h.error]

\* errors of the parse and of the structure check are thrown on to the caller
CatchBlock_Rethrows(error, cached) ==
    IF error.kind \in {"InvalidJSON", "InvalidStructure"}
    THEN [settled |-> "rejected", src |-> "none", data |-> Null,
          errs |-> 0, warns |-> 0, notice |-> "none", error |-> error]
    ELSE [settled |-> "resolved",
          src |-> Fallback(cached).src, data |-> Fallback(cached).data,
          errs |-> 1, warns |-> 1, notice |-> ErrorMessage(error), error |-> error]

\* the fallback is taken without its warning
CatchBlock_NoWarning(error, cached) ==
    [settled |-> "resolved",
     src |-> Fallback(cached).src, data |-> Fallback(cached).data,
     errs |-> 1, warns |-> 0, notice |-> ErrorMessage(error), error |-> error]

\* the catch block: one error message, one warning, and the fallback as the result
CatchBlock(error, cached) ==
    [settled |-> "resolved",
     src |-> Fallback(cached).src, data |-> Fallback(cached).data,
     errs |-> 1, warns |-> 1, notice |-> ErrorMessage(error), error |-> error]

\* the return of call c: how it settled, and what was seen on the way
Ret(c, out, event, body) ==
    [caller |-> c.caller, force |-> c.force, hadToken |-> c.hadToken,
     inWindow |-> c.inWindow, cached |-> c.cached, afterClear |-> c.afterClear,
     reqs |-> c.reqs, redirects |-> c.redirects, proxyMsgs |-> c.proxyMsgs,
     destroyed |-> c.destroyed,
     settled |-> out.settled, src |-> out.src, data |-> out.data,
     errs |-> out.errs, warns |-> out.warns, notice |-> out.notice, error |-> out.error,
     event |-> event, body |-> body]

\* a return without an error
Plain(src, data, warns) ==
    [settled |-> "resolved", src |-> src, data |-> data,
     errs |-> 0, warns |-> warns, notice |-> "none", error |-> Null]

\* the age of the entry a call reads is below 60 seconds (kept with the call so
\* that its return can be judged)
WithinWindow(entry, t) == entry # Null /\ t - entry.timestamp < 60000

\* a 3xx response that names a Location
RedirectWithLocation(e) ==
    e.t = "response" /\ e.status >= 300 /\ e.status < 400 /\ e.location # ""

\* a call as it starts: what it read, and nothing sent yet
NewCall(caller, forceRefresh, afterClear, cached, tok) ==
    [caller |-> caller, force |-> forceRefresh, hadToken |-> tok # "",
     inWindow |-> WithinWindow(cached, now),
     cached |-> IF cached = Null THEN Null ELSE [data |-> cached.data],
     afterClear |-> afterClear, reqs |-> 0, redirects |-> 0,
     maxRedirects |-> DefaultMaxRedirects, proxyMsgs |-> 0, cookie |-> Null,
     agent |-> "none", destroyed |-> FALSE, seq |-> started + 1]

\* the head of getUsageSummary(forceRefresh), up to `await this.makeHttpsRequest(...)`,
\* run against cache cch and token tok
Invoke(caller, forceRefresh, afterClear, cch, tok) ==
    LET cached == MapGet(cch, cacheKey)
        c0 == NewCall(caller, forceRefresh, afterClear, cached, tok)
        opts == GetRequestOptions(tok, proxy)
    IN  IF CacheValid(forceRefresh, cached, now) THEN
            /\ UNCHANGED <<calls, fetches>>
            /\ returned' = Ret(c0, Plain("cache", cached.data, 0), Null, Null)
        ELSE IF tok = "" THEN
            /\ UNCHANGED <<calls, fetches>>
            /\ returned' = Ret(c0, Plain("mock", MockUsageData, 1), Null, Null)
        ELSE
            /\ fetches' = fetches + 1
            /\ calls' = calls (+) SetToBag({[c0 EXCEPT !.reqs = 1,
                                                        !.cookie = opts.cookie,
                                                        !.agent = opts.agent,
                                                        !.proxyMsgs = opts.shown]})
            /\ returned' = NoReturn

----------------------------------------------------------------------------
(* Actions *)

Init ==
    /\ now = 0
    /\ apiToken \in Tokens
    /\ proxy \in ProxySettings
    /\ cache = EmptyMap
    /\ calls = EmptyBag
    /\ fetches = 0
    /\ returned = NoReturn
    /\ timers = {}
    /\ disposed = FALSE
    /\ started = 0
    /\ probe = NoProbe

\* no promise continuation is waiting to run: the next handler is an event's
Idle == returned = NoReturn

\* time passes
Tick ==
    /\ Idle
    /\ now + TickStep <= MaxTicks * TickStep
    /\ now' = now + TickStep
    /\ UNCHANGED <<apiToken, proxy, cache, calls, fetches, returned>>

\* StatusBarManager.updateStatusBar(), whatever starts it (startup, a timer, a
\* settings change)
UpdateStatusBar ==
    /\ Idle
    /\ Invoke("statusBar", FALSE, FALSE, cache, apiToken)
    /\ UNCHANGED <<now, apiToken, proxy, cache>>

\* updateStatusBar() after its await: the summary goes to updateStatusBarDisplay
StatusBarDisplay ==
    /\ ~Idle
    /\ returned.caller \in {"statusBar", "timer", "afterDetails"}
    /\ returned' = NoReturn
    /\ UNCHANGED <<now, apiToken, proxy, cache, calls, fetches>>

\* activate(): StatusBarManager.initialize() updates the status bar and arms its
\* timer, then startPeriodicUpdates() arms a second timer and updates the status
\* bar again, all in one run; without a token both calls return the placeholder
Activate ==
    LET opts == GetRequestOptions(apiToken, proxy)
        c0 == NewCall("statusBar", FALSE, FALSE, MapGet(cache, cacheKey), apiToken)
        sent == [c0 EXCEPT !.reqs = 1, !.cookie = opts.cookie, !.agent = opts.agent,
                           !.proxyMsgs = opts.shown]
    IN  /\ Idle
        /\ timers = {}
        /\ cache = EmptyMap
        /\ calls = EmptyBag
        /\ timers' = {[owner |-> "statusBar", due |-> now + UPDATE_INTERVAL_MS],
                      [owner |-> "extension", due |-> now + UPDATE_INTERVAL_MS]}
        /\ IF apiToken = "" THEN
               /\ UNCHANGED <<calls, fetches>>
               /\ returned' = Ret(c0, Plain("mock", MockUsageData, 1), Null, Null)
           ELSE
               /\ fetches' = fetches + 2
               /\ calls' = SetToBag({sent}) (+) SetToBag({sent})
               /\ returned' = NoReturn
        /\ UNCHANGED <<now, apiToken, proxy, cache>>

\* a timer is due
TimerDue == \E t \in timers : now >= t.due

\* one setInterval callback: updateStatusBar(), and the timer is due again a
\* period later
TimerFires(t) ==
    /\ Idle
    /\ t \in timers
    /\ now >= t.due
    /\ timers' = (timers \ {t}) \cup {[t EXCEPT !.due = t.due + UPDATE_INTERVAL_MS]}
    /\ Invoke("timer", FALSE, FALSE, cache, apiToken)
    /\ UNCHANGED <<now, apiToken, proxy, cache>>

\* showUsageDetails(): the forced fetch of the details command
ShowUsageDetails ==
    /\ Idle
    /\ Invoke("details", TRUE, FALSE, cache, apiToken)
    /\ UNCHANGED <<now, apiToken, proxy, cache>>

\* the status bar update after the details forces a refresh of its own
DetailsUpdateStatusBar_Forced ==
    /\ ~Idle
    /\ returned.caller = "details"
    /\ Invoke("afterDetails", TRUE, FALSE, cache, apiToken)
    /\ UNCHANGED <<now, apiToken, proxy, cache>>

\* showUsageDetails() after its await: the status bar is updated as well, by
\* updateStatusBar() and its getUsageSummary() without forceRefresh
DetailsUpdateStatusBar ==
    /\ ~Idle
    /\ returned.caller = "details"
    /\ Invoke("afterDetails", FALSE, FALSE, cache, apiToken)
    /\ UNCHANGED <<now, apiToken, proxy, cache>>

\* the entry survives the clear
ClearCache_Keeps == cache

\* clearCache(): what this.cache.clear() leaves
ClearCache == EmptyMap

\* onDidChangeConfiguration for apiToken: updateApiToken() (clearCache), then updateStatusBar()
TokenChanged(t) ==
    /\ Idle
    /\ t # apiToken
    /\ apiToken' = t
    /\ cache' = ClearCache
    /\ Invoke("statusBar", FALSE, TRUE, ClearCache, t)
    /\ UNCHANGED <<now, proxy>>

\* req.destroy() ran in a handler of the request that settled the chain
Destroyed(h) == "destroyed" \in DOMAIN h /\ h.destroyed

\* the next request of the chain of call c, sent with request options opts
Follow(c, e, opts) ==
    LET h == HandleEvent(e, c.maxRedirects)
    IN  /\ h.k = "follow"
        /\ calls' = (calls (-) SetToBag({c}))
                    (+) SetToBag({[c EXCEPT !.maxRedirects = h.maxRedirects,
                                            !.reqs = c.reqs + 1,
                                            !.redirects = c.redirects + 1,
                                            !.cookie = opts.cookie,
                                            !.agent = opts.agent,
                                            !.proxyMsgs = c.proxyMsgs + opts.shown]})
        /\ UNCHANGED <<now, apiToken, proxy, cache, fetches, returned>>

\* the chain keeps the options its first request was built with
Redirected_KeepsOptions(c, e) ==
    Follow(c, e, [cookie |-> c.cookie, agent |-> c.agent, shown |-> 0])

\* a redirect is followed: makeHttpsRequest(redirectUrl, maxRedirects - 1), which
\* calls getRequestOptions() again
Redirected(c, e) == Follow(c, e, GetRequestOptions(apiToken, proxy))

\* the transport settled: the rest of the try block, or the catch block
Settled(c, e) ==
    LET h == HandleEvent(e, c.maxRedirects)
        seen == [c EXCEPT !.redirects =
                     c.redirects + (IF RedirectWithLocation(e) THEN 1 ELSE 0),
                          !.destroyed = Destroyed(h)]
        body == IF h.k = "resolve" THEN h.body ELSE Null
    IN  /\ c.caller # "connectivity"
        /\ h.k # "follow"
        /\ LET v == TryBlock(h) IN
           IF v.ok THEN
               /\ cache' = MapSet(cache, cacheKey, [data |-> v.value, timestamp |-> now])
               /\ returned' = Ret(seen, Plain("fresh", v.value, 0), e, body)
           ELSE
               /\ cache' = cache
               /\ returned' = Ret(seen, CatchBlock(v.error, c.cached), e, body)
        /\ calls' = calls (-) SetToBag({c})
        /\ UNCHANGED <<now, apiToken, proxy, fetches>>

\* the command cursorUsageSummary.testConnectivity: testConnectivity() up to its
\* await; neither the cache nor the token is looked at
TestConnectivity ==
    LET opts == GetRequestOptions(apiToken, proxy)
        c0 == NewCall("connectivity", TRUE, FALSE, MapGet(cache, cacheKey), apiToken)
    IN  /\ Idle
        /\ fetches' = fetches + 1
        /\ calls' = calls (+) SetToBag({[c0 EXCEPT !.reqs = 1,
                                                    !.cookie = opts.cookie,
                                                    !.agent = opts.agent,
                                                    !.proxyMsgs = opts.shown]})
        /\ returned' = NoReturn
        /\ UNCHANGED <<now, apiToken, proxy, cache>>

\* the probe succeeds only on a body that passes the structure check too
ConnectivityResult_Verifies(h) == TryBlock(h).ok

\* the try block of testConnectivity from the await on: true when the transport
\* resolved and JSON.parse did not throw
ConnectivityResult(h) == h.k = "resolve" /\ JSONParse(h.body).ok

\* the transport of testConnectivity settled: it returns a boolean
ConnectivitySettled(c, e) ==
    LET h == HandleEvent(e, c.maxRedirects)
        seen == [c EXCEPT !.redirects =
                     c.redirects + (IF RedirectWithLocation(e) THEN 1 ELSE 0),
                          !.destroyed = Destroyed(h)]
        body == IF h.k = "resolve" THEN h.body ELSE Null
        out == [settled |-> "resolved", src |-> "probe",
                data |-> [connected |-> ConnectivityResult(h)],
                errs |-> 0, warns |-> 0, notice |-> "none", error |-> Null]
    IN  /\ c.caller = "connectivity"
        /\ h.k # "follow"
        /\ returned' = Ret(seen, out, e, body)
        /\ calls' = calls (-) SetToBag({c})
        /\ UNCHANGED <<now, apiToken, proxy, cache, fetches>>

\* the command after its await: the outcome is shown as a message
ConnectivityReport ==
    /\ ~Idle
    /\ returned.caller = "connectivity"
    /\ returned' = NoReturn
    /\ UNCHANGED <<now, apiToken, proxy, cache, calls, fetches>>

\* the proxy setting changes; no handler of the extension reacts to it
ProxyChanged(p) ==
    /\ Idle
    /\ p # proxy
    /\ proxy' = p
    /\ UNCHANGED <<now, apiToken, cache, calls, fetches, returned>>

\* event e of the outstanding request of call c
OnEvent(c, e) ==
    \/ Redirected(c, e)
    \/ Settled(c, e)

\* one event of an outstanding request
RequestEvent ==
    /\ Idle
    /\ \E c \in BagToSet(calls) : \E e \in CoreEvents(c.cookie, now, c.seq) : OnEvent(c, e)

RequestEventAny ==
    /\ Idle
    /\ \E c \in BagToSet(calls) : \E e \in AllEvents(c.cookie, now, c.seq) :
          OnEvent(c, e) \/ ConnectivitySettled(c, e)

\* The extension with any number of overlapping calls, a direct connection and
\* one event of each kind
InitDirect == Init /\ proxy = ""

Next ==
    /\ \/ Tick
       \/ UpdateStatusBar
       \/ StatusBarDisplay
       \/ ShowUsageDetails
       \/ DetailsUpdateStatusBar
       \/ \E t \in Tokens : TokenChanged(t)
       \/ RequestEvent
    /\ fetches' <= MaxFetches
    /\ UNCHANGED <<timers, started, probe, disposed>>

Spec == InitDirect /\ [][Next]_vars

\* The extension with one call in flight at a time, every proxy setting and
\* every event
NextSolo ==
    /\ \/ Tick
       \/ UpdateStatusBar
       \/ StatusBarDisplay
       \/ ShowUsageDetails
       \/ DetailsUpdateStatusBar
       \/ \E t \in Tokens : TokenChanged(t)
       \/ \E p \in ProxySettings : ProxyChanged(p)
       \/ TestConnectivity
       \/ ConnectivityReport
       \/ RequestEventAny
    /\ BagCardinality(calls') <= 1
    /\ fetches' <= MaxFetches
    /\ UNCHANGED <<timers, started, probe, disposed>>

\* The activated extension with a token, its two timers, and an upstream that
\* answers every request with the summary
InitPeriodic == Init /\ apiToken # "" /\ proxy = ""

\* the response to an outstanding request: 200 with the summary
FetchSucceeds ==
    /\ Idle
    /\ \E c \in BagToSet(calls) : Settled(c, Ok200(LiveBody(c.cookie, now, c.seq)))

\* deactivate(): StatusBarManager.dispose() clears the interval whose handle the
\* manager keeps in this.updateInterval; the handle of the interval armed by
\* startPeriodicUpdates() of the extension is a local constant of that function
Deactivate ==
    /\ Idle
    /\ ~disposed
    /\ timers # {}
    /\ disposed' = TRUE
    /\ timers' = {t \in timers : t.owner # "statusBar"}
    /\ UNCHANGED extension

NextPeriodic ==
    /\ \/ (Activate /\ ~disposed /\ UNCHANGED disposed)
       \/ (timers # {} /\ ~TimerDue /\ Tick /\ UNCHANGED <<timers, disposed>>)
       \/ \E t \in timers : (TimerFires(t) /\ UNCHANGED disposed)
       \/ (timers # {} /\ ~disposed /\ UpdateStatusBar /\ UNCHANGED <<timers, disposed>>)
       \/ (StatusBarDisplay /\ UNCHANGED <<timers, disposed>>)
       \/ (FetchSucceeds /\ UNCHANGED <<timers, disposed>>)
       \/ Deactivate
    /\ fetches' <= MaxPeriodicFetches
    /\ UNCHANGED <<started, probe>>

SpecPeriodic == InitPeriodic /\ [][NextPeriodic]_vars

\* The details command and status bar updates overlapping, with a token and an
\* upstream that answers every request with the summary; every call chain is
\* numbered in the order of its start
NextOverlap ==
    /\ \/ Tick
       \/ UpdateStatusBar
       \/ StatusBarDisplay
       \/ ShowUsageDetails
       \/ DetailsUpdateStatusBar
       \/ FetchSucceeds
    /\ fetches' <= MaxFetches
    /\ started' = fetches'
    /\ UNCHANGED <<timers, probe, disposed>>

SpecOverlap == InitPeriodic /\ [][NextOverlap]_vars

SpecSolo == Init /\ [][NextSolo]_vars

\* The transport of the extension and the transport of the diagnostic script,
\* run with the same token against the same responses
InitCli ==
    /\ now = 0 /\ apiToken = "" /\ proxy = "" /\ cache = EmptyMap
    /\ calls = EmptyBag /\ fetches = 0 /\ returned = NoReturn
    /\ timers = {}
    /\ disposed = FALSE
    /\ started = 0
    /\ \E token \in Tokens \ {""} :
          probe = [op |-> "chain", token |-> token, late |-> 0,
                   ext |-> ChainStart(API_BASE_URL \o API_ENDPOINT,
                                      GetRequestOptions(token, "").cookie,
                                      DefaultMaxRedirects),
                   cli |-> ChainStart(API_URL, CliCookieHeader(token),
                                      CliDefaultMaxRedirects)]

\* the upstream answers the outstanding request of both chains alike
Respond ==
    /\ probe.op = "chain"
    /\ probe.ext.status = "requesting"
    /\ probe.cli.status = "requesting"
    /\ \E e \in AllEvents(probe.ext.cookie, 0, 0) :
          probe' = [probe EXCEPT !.ext = MakeHttpsRequestStep(probe.ext, e, probe.token),
                                 !.cli = MakeRequestStep(probe.cli, e, probe.token)]
    /\ UNCHANGED <<extension, timers, started, disposed>>

NextCli == Respond

SpecCli == InitCli /\ [][NextCli]_vars

\* req.destroy() in the 'timeout' handler makes the request emit 'error' after
\* the promise was rejected: the 'error' handler runs on a settled chain
LateError ==
    /\ probe.op = "chain"
    /\ probe.late = 0
    /\ probe.ext.status = "rejected"
    /\ probe.ext.result.kind = "Timeout"
    /\ probe' = [probe EXCEPT
                    !.late = 1,
                    !.ext = MakeHttpsRequestStep(probe.ext,
                                                 [t |-> "error", code |-> "ECONNRESET"],
                                                 probe.token)]
    /\ UNCHANGED <<extension, timers, started, disposed>>

NextChain == Respond \/ LateError

\* The call chain when every outstanding request gets a response, an error or a
\* timeout in the end
SpecChain == InitCli /\ [][NextChain]_vars /\ WF_vars(Respond)

\* Proxy resolution for every setting and every environment
InitProxy ==
    /\ now = 0 /\ apiToken = "" /\ proxy = "" /\ cache = EmptyMap
    /\ calls = EmptyBag /\ fetches = 0 /\ returned = NoReturn
    /\ timers = {}
    /\ disposed = FALSE
    /\ started = 0
    /\ \E setting \in ProxySettings \cup {" "} :
       \E env \in [{EnvNames[i] : i \in 1..4} -> EnvValues] :
          probe = [op |-> "proxy", setting |-> setting, env |-> env]

\* getRequestOptions resolves the proxy and builds the agent
ResolveProxy ==
    /\ probe.op = "proxy"
    /\ "connection" \notin DOMAIN probe
    /\ probe' = [op |-> "proxy", setting |-> probe.setting, env |-> probe.env,
                 connection |-> Connection(ProxyUrl(probe.setting, probe.env))]
    /\ UNCHANGED <<extension, timers, started, disposed>>

NextProxy == ResolveProxy

SpecProxy == InitProxy /\ [][NextProxy]_vars

\* Cookie normalisation, applied to every token text and then to its own result
TokenHeads ==
    {"", "WorkosCursorSessionToken=", "WorkosCursorSessionToken",
     "workoscursorsessiontoken=", " WorkosCursorSessionToken=",
     "Cookie: WorkosCursorSessionToken=",
     "WorkosCursorSessionToken=WorkosCursorSessionToken="}

TokenTails ==
    {"", "a", "=", " ", "user_01%3A%3Aeyj", "a=b; c=d", "WorkosCursorSessionToken=a", "W"}

\* the token texts that are set (an empty token sets no Cookie header)
TokenTexts == {h \o t : h \in TokenHeads, t \in TokenTails} \ {""}

InitCookie ==
    /\ now = 0 /\ apiToken = "" /\ proxy = "" /\ cache = EmptyMap
    /\ calls = EmptyBag /\ fetches = 0 /\ returned = NoReturn
    /\ timers = {}
    /\ disposed = FALSE
    /\ started = 0
    /\ \E t \in TokenTexts :
          probe = [op |-> "cookie", token |-> t, times |-> 0, ext |-> t, cli |-> t]

\* the extension and the script each build the Cookie header from the token
NormaliseToken ==
    /\ probe.op = "cookie"
    /\ probe.times = 0
    /\ probe' = [probe EXCEPT !.times = 1,
                               !.ext = CookieValue(probe.token),
                               !.cli = CliCookieValue(probe.token)]
    /\ UNCHANGED <<extension, timers, started, disposed>>

\* the header that was built is configured as the token and normalised again
NormaliseAgain ==
    /\ probe.op = "cookie"
    /\ probe.times = 1
    /\ probe' = [probe EXCEPT !.times = 2,
                               !.ext = CookieValue(probe.ext),
                               !.cli = CliCookieValue(probe.cli)]
    /\ UNCHANGED <<extension, timers, started, disposed>>

NextCookie == NormaliseToken \/ NormaliseAgain

SpecCookie == InitCookie /\ [][NextCookie]_vars

\* The percentage helpers, each applied to every summary
InitHelpers ==
    /\ now = 0 /\ apiToken = "" /\ proxy = "" /\ cache = EmptyMap
    /\ calls = EmptyBag /\ fetches = 0 /\ returned = NoReturn
    /\ timers = {}
    /\ disposed = FALSE
    /\ started = 0
    /\ probe \in [op : {"percentages"}, usageData : Summaries]

\* both helpers are applied to the summary
ComputePercentages ==
    /\ probe.op = "percentages"
    /\ "individual" \notin DOMAIN probe
    /\ probe' = [op |-> "percentages", usageData |-> probe.usageData,
                 individual |-> GetIndividualUsagePercentage(probe.usageData),
                 team |-> GetTeamUsageInfo(probe.usageData),
                 statusBar |-> UpdateStatusBarDisplay(probe.usageData),
                 details |-> DetailsIndividual(probe.usageData)]
    /\ UNCHANGED extension

NextHelpers == ComputePercentages /\ UNCHANGED <<timers, started, disposed>>

SpecHelpers == InitHelpers /\ [][NextHelpers]_vars

----------------------------------------------------------------------------
(* Properties *)

\* this.cache.get(cacheKey): the resident entry, or Null
Entry == MapGet(cache, cacheKey)

\* a getUsageSummary call has just returned
Returned == returned # NoReturn /\ returned.caller # "connectivity"

\* a testConnectivity call has just returned
Probed == returned # NoReturn /\ returned.caller = "connectivity"

\* the fetch of the call that has just returned failed
FetchFailed == Returned /\ returned.error # Null

\* the messages shown to the user between the start of the call and its return
MessagesShown == returned.errs + returned.warns + returned.proxyMsgs

\* C1: a call without forceRefresh that finds a cache entry younger than 60
\* seconds returns the data of that entry and makes no request.
C1_FreshEntryIsServed ==
    (Returned /\ ~returned.force /\ returned.inWindow) =>
        /\ returned.src = "cache"
        /\ returned.reqs = 0
        /\ Entry # Null
        /\ returned.data = Entry.data
        /\ returned.data = returned.cached.data

C1_Witness ==
    /\ Returned /\ ~returned.force /\ returned.inWindow
    /\ returned.src = "cache"
    /\ now - Entry.timestamp > 0

\* C2 as stated: every call with forceRefresh makes a request, whatever the
\* cache and the configuration.
C2_ForcedAlwaysRequests ==
    (Returned /\ returned.force) => returned.reqs >= 1

\* C2, amended: every call with forceRefresh made while a token is configured
\* makes a request, whatever the cache holds.
C2_ForcedRequestsWithToken ==
    /\ (Returned /\ returned.force /\ returned.hadToken) => returned.reqs >= 1
    /\ \A c \in BagToSet(calls) : c.reqs >= 1

C2_Witness ==
    /\ Returned /\ returned.force /\ returned.hadToken
    /\ returned.inWindow
    /\ returned.reqs >= 1

\* C3: every call resolves with a summary; none rejects, whatever the cache,
\* the configuration and the outcome of the transport.
C3_AlwaysResolves ==
    Returned => (returned.settled = "resolved" /\ returned.data # Null)

C3_Witness ==
    /\ FetchFailed
    /\ returned.error.kind = "InvalidStructure"
    /\ returned.settled = "resolved"

C5_NoTokenPlaceholder ==
    (Returned /\ ~returned.hadToken) =>
        /\ returned.data = MockUsageData
        /\ returned.data.individualUsage.overall.used = 794
        /\ returned.data.individualUsage.overall.limit = 5000
        /\ returned.reqs = 0

\* C6: no call returns a summary obtained with a token other than the one
\* configured, the cache having been cleared at every token change.
C6_NoOldTokenData ==
    (Returned /\ returned.data # Null /\ returned.data.owner # "mock") =>
        returned.data.owner = apiToken

\* C7 as stated: the call made right after clearCache() makes a request and
\* returns nothing from the cache.
C7_AfterClearRequests ==
    (Returned /\ returned.afterClear) =>
        (returned.reqs >= 1 /\ returned.src \notin {"cache", "stale"})

\* C7, amended: the call made right after clearCache() returns nothing from the
\* cache, and makes a request whenever a token is configured.
C7_AfterClearNoCache ==
    (Returned /\ returned.afterClear) =>
        /\ returned.src \in {"fresh", "mock"}
        /\ returned.cached = Null
        /\ returned.hadToken => returned.reqs >= 1

C7_Witness ==
    /\ Returned /\ returned.afterClear
    /\ returned.src = "fresh"
    /\ returned.reqs >= 1

\* C8 as stated: a call whose fetch fails shows exactly one message.
C8_OneMessage ==
    FetchFailed => MessagesShown = 1

\* C8, amended: a call whose fetch fails shows one error message for the failure
\* and one warning for the fallback, and one more error message for every
\* request whose proxy agent could not be built.
C8_ErrorAndWarning ==
    FetchFailed =>
        /\ returned.errs = 1
        /\ returned.warns = 1
        /\ returned.proxyMsgs <= returned.reqs
        /\ MessagesShown >= 2

C8_Witness ==
    /\ FetchFailed
    /\ returned.cached # Null
    /\ returned.proxyMsgs = 0
    /\ MessagesShown = 2

\* C9: a chain that gets six redirects with a Location makes no seventh request
\* and fails with TooManyRedirects, and the call returns the data of the entry
\* it read from the cache, if it read one, and not the placeholder.
C9_SixRedirectsFail ==
    /\ \A c \in BagToSet(calls) : c.redirects <= DefaultMaxRedirects
    /\ (Returned /\ returned.redirects > DefaultMaxRedirects) =>
          /\ returned.redirects = DefaultMaxRedirects + 1
          /\ returned.reqs = DefaultMaxRedirects + 1
          /\ returned.error # Null
          /\ returned.error.kind = "TooManyRedirects"
          /\ returned.cached # Null =>
                (returned.data = returned.cached.data /\ returned.data # MockUsageData)

C9_Witness ==
    /\ FetchFailed
    /\ returned.redirects = DefaultMaxRedirects + 1
    /\ returned.error.kind = "TooManyRedirects"
    /\ returned.cached # Null
    /\ returned.src = "stale"

\* C10: a chain of k redirects, k from 0 to 5, and then a 200 response resolves
\* with the body of that response after k + 1 requests; no chain is cut short
\* before its sixth redirect.
C10_FollowsFiveRedirects ==
    (Returned /\ returned.reqs >= 1) =>
        /\ (returned.event.t = "response" /\ returned.event.status = 200
              /\ returned.event.stream = "end") =>
              /\ returned.body = returned.event.body
              /\ returned.redirects \in 0..DefaultMaxRedirects
              /\ returned.reqs = returned.redirects + 1
        /\ (returned.error # Null /\ returned.error.kind = "TooManyRedirects") =>
              returned.redirects > DefaultMaxRedirects

C10_Witness ==
    /\ Returned
    /\ returned.redirects = DefaultMaxRedirects
    /\ returned.reqs = DefaultMaxRedirects + 1
    /\ returned.src = "fresh"
    /\ returned.body = returned.event.body

\* call d of getUsageSummary has just sent a request
JustSent(d) ==
    /\ d \in BagToSet(calls')
    /\ d \notin BagToSet(calls)
    /\ d.caller # "connectivity"

\* C11: every request of a call chain started by getUsageSummary, the first one
\* and every redirect hop, carries a Cookie header, and the value is the same on
\* all requests of the chain: a hop sends the cookie the request before it sent.
C11_SameCookieEveryHop ==
    [][\A d \in BagToSet(calls') :
          JustSent(d) =>
              /\ d.cookie # Null
              /\ d.reqs > 1 =>
                    \E c \in BagToSet(calls) :
                        /\ c.caller = d.caller
                        /\ c.reqs + 1 = d.reqs
                        /\ c.cookie = d.cookie]_vars

\* the helpers have been applied to a summary
Computed == probe.op = "percentages" /\ "individual" \in DOMAIN probe

\* bucket b was given with limit 0
ZeroLimit(b) == b # Null /\ b.limit = 0

\* C12: for every bucket whose limit is 0 the helpers return percentage 0,
\* whatever `used` is, and never NaN or Infinity.
C12_ZeroLimitGivesZero ==
    Computed =>
        /\ ZeroLimit(IndividualOverall(probe.usageData)) => probe.individual = Num(0)
        /\ \A name \in {"onDemand", "pooled"} :
              ZeroLimit(TeamBucket(probe.usageData, name)) =>
                  probe.team[name].percentage = Num(0)

\* C13: testConnectivity runs one call chain whatever the cache holds, never
\* rejects, and returns true exactly when the transport resolved (a 200 response
\* streamed to its end) and the body parsed as JSON.
C13_ConnectivityIsFetchAndParse ==
    Probed =>
        /\ returned.settled = "resolved"
        /\ returned.reqs >= 1
        /\ returned.reqs <= DefaultMaxRedirects + 1
        /\ returned.data.connected <=>
              /\ returned.event.t = "response"
              /\ returned.event.status = 200
              /\ returned.event.stream = "end"
              /\ returned.event.body.syntax = "json"

C13_Witness ==
    /\ Probed
    /\ returned.inWindow
    /\ returned.data.connected
    /\ returned.event.body.value = Null

\* C14: with a token and every fetch succeeding, each firing of a 60-second
\* timer gets the summary from the upstream: what it shows was fetched at that
\* firing, and is not an entry an earlier firing or the startup left in the cache.
C14_TimerShowsFreshSummary ==
    (Returned /\ returned.caller = "timer") =>
        \/ returned.src = "fresh"
        \/ (returned.src = "cache" /\ Entry.timestamp >= now)

\* C15: with a token and every fetch succeeding, the calls without forceRefresh
\* (startup, timers, settings changes) start at most one call chain per 60
\* seconds: at most one has started before the first 60 seconds are over.
C15_OneChainPerWindow ==
    now < CACHE_DURATION => fetches <= 1

\* C16: of two overlapping fetches that both succeed, the one that started
\* earlier does not overwrite the entry of the one that started later: an entry
\* is only ever replaced by the data of a fetch that started after its own.
C16_LaterStartWins ==
    [][(Entry # Null /\ Entry' # Null /\ Entry'.data # Entry.data) =>
           Entry'.data.req > Entry.data.req]_vars

\* the call that returned ended on a response of the upstream
OnResponse == Returned /\ returned.event # Null /\ returned.event.t = "response"

\* C18 as stated: a response with a status from 200 to 299 never fails with
\* HttpStatus.
C18_Every2xxResolves ==
    (OnResponse /\ returned.event.status \in 200..299) =>
        (returned.error = Null \/ returned.error.kind # "HttpStatus")

\* C18: the transport resolves with the body of a response of status 200 once
\* its stream ends; every status other than 200 outside 300..399 (204 too) fails
\* with HttpStatus and no body, and nothing else fails with HttpStatus.
C18_Only200Resolves ==
    /\ (OnResponse /\ returned.event.status \notin 300..399) =>
          IF returned.event.status = 200
          THEN returned.event.stream = "end" => returned.body = returned.event.body
          ELSE returned.body = Null /\ returned.error.kind = "HttpStatus"
    /\ (Returned /\ returned.error # Null /\ returned.error.kind = "HttpStatus") =>
          /\ OnResponse
          /\ returned.event.status \notin 300..399
          /\ returned.event.status # 200

C18_Witness ==
    /\ OnResponse
    /\ returned.event.status = 204
    /\ returned.error.kind = "HttpStatus"
    /\ returned.body = Null

\* C19: a fetch that fails because the redirect bound is exhausted is reported
\* with the redirect-loop message (the token may be invalid or expired), and a
\* failure of no other kind is reported with that message.
C19_RedirectLoopMessage ==
    FetchFailed =>
        (returned.error.kind = "TooManyRedirects" <=> returned.notice = "redirect-loop")

\* the message the catch block is to pick for a status code
ByCode(status) ==
    CASE status = 401 -> "invalid-token"
      [] status = 403 -> "access-denied"
      [] status = 404 -> "endpoint-not-found"
      [] OTHER -> "generic"

\* C20: an HttpStatus failure is reported by its status code, 401 as an invalid
\* token, 403 as missing permission, 404 as a missing endpoint and any other
\* code with the generic message, whatever status message comes with the code.
C20_ReportedByCode ==
    (FetchFailed /\ returned.error.kind = "HttpStatus") =>
        returned.notice = ByCode(returned.event.status)

\* C21: the token and the proxy are read from the settings for every request:
\* each request that is sent, the first of a call and every redirect hop, carries
\* the cookie of the token and the agent of the proxy configured at that moment,
\* so a call that starts after a change is built from the new values only.
C21_SettingsReadFresh ==
    [][\A d \in BagToSet(calls') :
          d \notin BagToSet(calls) =>
              /\ d.cookie = CookieHeader(apiToken')
              /\ d.agent = GetRequestOptions(apiToken', proxy').agent]_vars

C21_Witness ==
    \E c \in BagToSet(calls) :
        /\ c.afterClear
        /\ c.reqs >= 2
        /\ proxy = "http://proxy:8080"
        /\ c.agent = "proxy"
        /\ c.cookie = CookieHeader(apiToken)

\* the first n characters of str
FirstChars(str, n) == IF Len(str) <= n THEN str ELSE SubSeq(str, 1, n)

\* C22: a token that begins with 'WorkosCursorSessionToken=' is the Cookie value
\* as it is, any other token is put after 'WorkosCursorSessionToken='; the value
\* always begins with the cookie name, and normalising it again changes nothing.
\* The extension and the script build the same value.
C22_CookieNormalised ==
    (probe.op = "cookie" /\ probe.times >= 1) =>
        /\ FirstChars(probe.ext, 25) = "WorkosCursorSessionToken="
        /\ probe.cli = probe.ext
        /\ \/ probe.ext = probe.token /\ FirstChars(probe.token, 25) = "WorkosCursorSessionToken="
           \/ /\ probe.times = 1
              /\ probe.ext = "WorkosCursorSessionToken=" \o probe.token
              /\ FirstChars(probe.token, 25) # "WorkosCursorSessionToken="
           \/ /\ probe.times = 2
              /\ probe.ext = "WorkosCursorSessionToken=" \o probe.token
        /\ probe.times = 2 => probe.ext = CookieValue(probe.token)

C22_Witness ==
    /\ probe.op = "cookie"
    /\ probe.times = 2
    /\ probe.token = "WorkosCursorSessionToken=WorkosCursorSessionToken=a"
    /\ probe.ext = probe.token

\* the proxy has been resolved
Resolved == probe.op = "proxy" /\ "connection" \in DOMAIN probe

\* a variable that is set to a text that is not empty
IsSet(v) == v.set /\ v.value # ""

\* the values of the variables that are set, in the order they are tried
SetValues(env) == SelectSeq([i \in 1..4 |-> env[EnvNames[i]]], IsSet)

\* C23: a configured proxy that is not blank is used; without one the first of
\* https_proxy, HTTPS_PROXY, http_proxy, HTTP_PROXY that is set is used; the
\* connection is direct only when the setting is blank and none of the four is set.
C23_ProxyResolution ==
    Resolved =>
        IF ~Blank(probe.setting) THEN
            probe.connection.via = "proxy" /\ probe.connection.url = probe.setting
        ELSE IF SetValues(probe.env) # <<>> THEN
            /\ probe.connection.via = "proxy"
            /\ probe.connection.url = SetValues(probe.env)[1].value
        ELSE probe.connection.via = "direct"

\* C24: for a summary with isUnlimited = true neither the status bar nor the
\* details view shows a percentage computed from used and limit.
C24_UnlimitedNoPercentage ==
    (Computed /\ probe.usageData.isUnlimited) =>
        /\ "percentage" \notin DOMAIN probe.statusBar
        /\ "percentage" \notin DOMAIN probe.details

\* a call returns in this step
Returns == returned' # NoReturn /\ returned' # returned

\* C25: the cache changes in two ways only. A fetch of getUsageSummary whose body
\* parsed and passed the structure check makes the cache the single entry (parsed
\* data, time of completion); clearCache empties it. A cache hit, a call without
\* a token, a failed fetch and testConnectivity, true or false, leave it as it was.
C25_CacheChanges ==
    [][/\ (Returns /\ returned'.src = "fresh") =>
             /\ returned'.data = returned'.body.value
             /\ returned'.data.individualUsage # Null
             /\ cache' = MapSet(EmptyMap, cacheKey,
                                [data |-> returned'.data, timestamp |-> now])
       /\ (Returns /\ returned'.src # "fresh" /\ apiToken' = apiToken) => cache' = cache
       /\ cache' # cache =>
             \/ Returns /\ returned'.src = "fresh"
             \/ apiToken' # apiToken /\ cache' = EmptyMap]_vars

C25_Witness ==
    /\ Returned
    /\ returned.src = "fresh"
    /\ returned.cached # Null
    /\ returned.cached.data # returned.data
    /\ cache = MapSet(EmptyMap, cacheKey, [data |-> returned.data, timestamp |-> now])

\* a summary with its individualUsage section
HasIndividualUsage(data) == data # Null /\ data.individualUsage # Null

\* C26: the cache never holds more than one entry, and only under the key
\* "usage-summary"; the data of the entry has an individualUsage section. A body
\* that parses but has no individualUsage fails the structure check and is not
\* what the cache holds.
C26_OneValidEntry ==
    /\ DOMAIN cache \subseteq {"usage-summary"}
    /\ Cardinality(DOMAIN cache) <= 1
    /\ Entry # Null => HasIndividualUsage(Entry.data)
    /\ (OnResponse /\ returned.body # Null /\ returned.body.syntax = "json"
           /\ ~HasIndividualUsage(returned.body.value)) =>
          /\ returned.error.kind = "InvalidStructure"
          /\ Entry # Null => Entry.data # returned.body.value

C26_Witness ==
    /\ OnResponse
    /\ returned.body # Null
    /\ returned.body.syntax = "json"
    /\ returned.body.value # Null
    /\ ~HasIndividualUsage(returned.body.value)
    /\ returned.error.kind = "InvalidStructure"
    /\ Cardinality(DOMAIN cache) = 1

\* C27: whatever getUsageSummary returns, fetched, taken from the cache (fresh or
\* as the fallback of a failed fetch) or the placeholder, has the individualUsage
\* section that the structure check of a live response asks for.
C27_ReturnsAreValid ==
    Returned => HasIndividualUsage(returned.data)

C27_Witness ==
    /\ Returned
    /\ returned.src = "mock"
    /\ returned.error # Null
    /\ returned.error.kind = "InvalidStructure"
    /\ HasIndividualUsage(returned.data)

\* the call that returned ended on a 3xx response
On3xx == OnResponse /\ returned.event.status \in 300..399

\* C28: on a 3xx response the Location header is tested before the bound. A 3xx
\* without Location fails with RedirectWithoutLocation however many redirects
\* remain, none included; TooManyRedirects is the failure only of a 3xx that
\* has a Location and arrives when no redirect remains.
C28_LocationBeforeBound ==
    /\ (On3xx /\ returned.event.location = "") =>
          returned.error.kind = "RedirectWithoutLocation"
    /\ (FetchFailed /\ returned.error.kind = "TooManyRedirects") =>
          /\ On3xx
          /\ returned.event.location # ""
          /\ returned.reqs = DefaultMaxRedirects + 1
    /\ (On3xx /\ returned.event.location # "") =>
          /\ returned.error.kind = "TooManyRedirects"
          /\ returned.reqs = DefaultMaxRedirects + 1

C28_Witness ==
    /\ On3xx
    /\ returned.event.location = ""
    /\ returned.reqs = DefaultMaxRedirects + 1
    /\ returned.error.kind = "RedirectWithoutLocation"

\* a request of the extension's chain goes to the target of a redirect
AtRedirectTarget == probe.op = "chain" /\ probe.ext.via # ""

\* C30: an absolute Location is requested as given; a relative Location is joined
\* against the fixed base, so that the next request goes to host cursor.com with
\* the path of the Location.
C30_RedirectTarget ==
    AtRedirectTarget =>
        IF IndexOf(probe.ext.via, "://") > 0 THEN probe.ext.url = probe.ext.via
        ELSE /\ Hostname(probe.ext.url) = "cursor.com"
             /\ StartsWith(probe.ext.via, "/") => Pathname(probe.ext.url) = probe.ext.via

\* C29: a call chain of the transport goes from request to request by redirects
\* and, when every request gets a response, an error or a timeout, ends in one
\* of Succeeded and Failed: it never makes more than 6 requests, it ends in the
\* end, what it settled with is not changed by a later event, and only the sixth
\* request ends it with TooManyRedirects.
C29_ChainTerminates ==
    /\ [](probe.op = "chain" =>
            /\ probe.ext.status \in {"requesting", "resolved", "rejected"}
            /\ probe.ext.reqs <= DefaultMaxRedirects + 1
            /\ probe.ext.reqs + probe.ext.maxRedirects = DefaultMaxRedirects + 1
            /\ (probe.ext.status = "rejected"
                  /\ probe.ext.result.kind = "TooManyRedirects") =>
                     probe.ext.reqs = DefaultMaxRedirects + 1)
    /\ <>(probe.ext.status \in {"resolved", "rejected"})
    /\ [][probe.ext.status # "requesting" => probe'.ext = probe.ext]_vars

C29_Witness ==
    /\ probe.op = "chain"
    /\ probe.ext.status = "rejected"
    /\ probe.ext.result.kind = "TooManyRedirects"
    /\ probe.ext.reqs = DefaultMaxRedirects + 1
    /\ probe.ext.maxRedirects = 0

\* C31: when a request times out, whichever of the request's and the socket's
\* timeout handler runs first, the request is destroyed, the chain fails as a
\* timeout, and getUsageSummary reports it with the message about a timed out
\* request, the network and the proxy, falling back to cached or placeholder data.
C31_TimeoutReported ==
    (Returned /\ returned.event # Null /\ returned.event.t = "timeout") =>
        /\ returned.destroyed
        /\ returned.error # Null
        /\ returned.error.kind = "Timeout"
        /\ returned.notice = "timed-out"
        /\ returned.src \in {"stale", "mock"}

C31_Witness ==
    /\ Returned
    /\ returned.event # Null
    /\ returned.event.t = "timeout"
    /\ returned.event.first = "socket"
    /\ returned.destroyed
    /\ returned.notice = "timed-out"

\* C32: testConnectivity agrees with the fetch it probes: on the same
\* configuration and the same upstream responses it returns true exactly when
\* a forced getUsageSummary would return freshly fetched data, that is when a
\* token is set, the transport resolved, and the body passed the parse and the
\* structure check.
C32_ProbeAgreesWithFetch ==
    Probed =>
        (returned.data.connected <=>
            /\ returned.hadToken
            /\ returned.body # Null
            /\ ParseAndVerify(returned.body).ok)

\* C33: when the forced fetch of showUsageDetails returned freshly fetched
\* data, the status bar update that follows it sends no request and starts no
\* call chain: it returns at once from the cache, with the summary the details
\* panel got, and the status bar shows that summary.
C33_StatusBarFromEntryJustWritten ==
    [][(returned # NoReturn /\ returned.caller = "details" /\ returned.src = "fresh") =>
          /\ fetches' = fetches
          /\ calls' = calls
          /\ cache' = cache
          /\ returned' # NoReturn
          /\ returned'.caller = "afterDetails"
          /\ returned'.src = "cache"
          /\ returned'.reqs = 0
          /\ returned'.data = returned.data
          /\ UpdateStatusBarDisplay(returned'.data) = UpdateStatusBarDisplay(returned.data)]_vars

C33_Witness ==
    /\ Returned
    /\ returned.caller = "afterDetails"
    /\ returned.src = "cache"
    /\ returned.reqs = 0
    /\ Entry # Null
    /\ Entry.timestamp = now
    /\ returned.data = Entry.data
    /\ returned.data.req = fetches
    /\ now > 0

\* C34: once the extension is deactivated no periodic timer is armed any more,
\* so that no timer starts an updateStatusBar or getUsageSummary call afterwards.
C34_NoTimerAfterDeactivate ==
    disposed => timers = {}

\* C17: given the same token and the same responses, the transport of the
\* diagnostic script and the transport of the extension send the same Cookie
\* header to the same redirect targets, stop at the same redirect bound and end
\* alike: with the same body, or with a failure of the same kind.
C17_CliAgreesWithExtension ==
    probe.op = "chain" =>
        /\ probe.cli.cookie = probe.ext.cookie
        /\ probe.cli.url = probe.ext.url
        /\ probe.cli.maxRedirects = probe.ext.maxRedirects
        /\ probe.cli.reqs = probe.ext.reqs
        /\ probe.cli.status = probe.ext.status
        /\ probe.cli.result = probe.ext.result

====
